---- MODULE Spec2Model ----
(***************************************************************************)
(* Finora (streamlit_app.py): the sqlite store (users, transactions,       *)
(* goals), the session state and the form handlers that read and write     *)
(* them.  One action per form submission; every action is the whole        *)
(* handler, from the login gate to the last statement it executes.         *)
(***************************************************************************)
EXTENDS Integers, Sequences, FiniteSets, TLC

VARIABLES
    users,         \* table users, in rowid order: [username, password, user_id]
    users_seq,     \* sqlite_sequence entry of users (AUTOINCREMENT)
    transactions,  \* table transactions, in rowid order: [rowid, user_id, date, ...]
    goals,         \* table goals, in rowid order
    session,       \* st.session_state: [logged_in, user_id, username]
    last,          \* the last form submitted, its inputs and the message shown
    registered,    \* history: every register_user call that returned True
    appended       \* history: per user, the list as of the user's last update or
                   \* delete (empty if none), then the save_transaction calls since

vars == <<users, users_seq, transactions, goals, session, last, registered, appended>>

(***************************************************************************)
(* Bounds of the model and the small sets the form inputs are drawn from.  *)
(***************************************************************************)
\* Rows in the database file, over its three tables.
MaxRows == 4

\* Rows in the users table.
MaxUsers == 2

RowsStored == Len(users) + Len(transactions) + Len(goals)

Usernames == {"alice", "bob"}
Passwords == {"pw1", "pw2"}

\* What register_form is submitted with: the same name twice, with the same and
\* with another password, and two names with the same password.  (bob, pw2) adds
\* nothing to these by symmetry; login_form is submitted with every pair.
Credentials == {<<"alice", "pw1">>, <<"alice", "pw2">>, <<"bob", "pw1">>}
Dates == {"2024-01-15"}
Types == {"Income", "Expense"}
Categories == {"Food"}
Notes == {""}
Amounts == {0, 50}
GoalNames == {"", "car"}
Targets == {100}
Saveds == {0, 100}
Deadlines == {"2025-12-31"}

\* Python's None, as stored in session_state['username'] and ['user_id'].
None == "None"
NoId == 0

\* The values session_state['user_id'] can hold.
SessionIds == 0..MaxUsers

(***************************************************************************)
(* Pure helpers.                                                           *)
(***************************************************************************)
\* hashlib.sha256(password.encode()).hexdigest()
hash_password(password) ==
    CASE password = "pw1" -> "c592df4a86933b92addc9842402ddf198c638ea9be58916ee6e3734e1e3152f8"
      [] password = "pw2" -> "93915a0a4bf8f634cb1856494dd4304472ad46b9827f541f76b6761c49cc55b0"

\* The DataFrame pandas builds from the rows a SELECT returned: positions 0..n-1.
RECURSIVE SelectRows(_, _)
SelectRows(rows, user_id) ==
    IF rows = <<>> THEN <<>>
    ELSE IF Head(rows).user_id = user_id
         THEN <<Head(rows)>> \o SelectRows(Tail(rows), user_id)
         ELSE SelectRows(Tail(rows), user_id)

\* SELECT * leaves out the implicit rowid column.
Columns(row) ==
    [user_id |-> row.user_id, date |-> row.date, type |-> row.type,
     category |-> row.category, amount |-> row.amount, notes |-> row.notes]

\* SELECT user_id FROM users WHERE username = ? AND password = ?; fetchone():
\* the ids fetchone can return (SQL fixes no order), or NoId for Python's None.
check_user_any_password(username, password) ==
    LET hits == {i \in 1..Len(users) : users[i].username = username}
    IN  IF hits = {} THEN {NoId} ELSE {users[i].user_id : i \in hits}

check_user(username, password) ==
    LET hits == {i \in 1..Len(users) :
                    /\ users[i].username = username
                    /\ users[i].password = hash_password(password)}
    IN  IF hits = {} THEN {NoId} ELSE {users[i].user_id : i \in hits}

\* The rowid sqlite gives a row inserted into a table without AUTOINCREMENT:
\* one more than the largest rowid in the table.
next_rowid(rows) ==
    IF rows = <<>> THEN 1 ELSE rows[Len(rows)].rowid + 1

\* Rows are kept in rowid order, the order of a table scan.
RECURSIVE InsertByRowid(_, _)
InsertByRowid(rows, row) ==
    IF rows = <<>> THEN <<row>>
    ELSE IF row.rowid < Head(rows).rowid THEN <<row>> \o rows
         ELSE <<Head(rows)>> \o InsertByRowid(Tail(rows), row)

\* SELECT * FROM transactions WHERE user_id = ?, read into a DataFrame.
Listing(rows, user_id) ==
    LET df == SelectRows(rows, user_id)
    IN  [i \in 1..Len(df) |-> Columns(df[i])]

load_transactions_newest_first(user_id) ==
    LET df == Listing(transactions, user_id)
    IN  [i \in 1..Len(df) |-> df[Len(df) + 1 - i]]

load_transactions(user_id) == Listing(transactions, user_id)

load_goals(user_id) == SelectRows(goals, user_id)

\* if not st.session_state['logged_in']: ... st.stop()
login_gate_open == TRUE

login_gate == session.logged_in

Anonymous == [logged_in |-> FALSE, user_id |-> NoId, username |-> None]

\* The fields update_transaction was called with (NoFields: it was not called).
NoFields == [date |-> "", type |-> "", category |-> "", amount |-> 0, notes |-> ""]

Fields(date, t_type, category, amount, notes) ==
    [date |-> date, type |-> t_type, category |-> category, amount |-> amount,
     notes |-> notes]

\* index: the index update_transaction or delete_transaction was called with.
Event(form, index, fields, msg) ==
    [form |-> form, index |-> index, fields |-> fields, msg |-> msg]

Init ==
    /\ users = <<>>
    /\ users_seq = 0
    /\ transactions = <<>>
    /\ goals = <<>>
    /\ session = Anonymous
    /\ last = Event("none", 0, NoFields, "")
    /\ registered = {}
    /\ appended = [u \in SessionIds |-> <<>>]

(***************************************************************************)
(* The store operations.  Each returns the table after the statement.      *)
(***************************************************************************)
\* sqlite3.IntegrityError on INSERT INTO users (username, password): init_db
\* declares users(username TEXT, password TEXT, user_id INTEGER PRIMARY KEY
\* AUTOINCREMENT), so the only constraint is the key, which sqlite assigns.
IntegrityError(username) == FALSE

\* INTEGER PRIMARY KEY AUTOINCREMENT: one more than the largest id ever used.
next_user_id ==
    LET top == IF users = <<>> THEN 0 ELSE users[Len(users)].user_id
    IN  (IF top > users_seq THEN top ELSE users_seq) + 1

\* register_user: the users table after the call; unchanged when it returned False.
register_user(username, password) ==
    IF IntegrityError(username) THEN users
    ELSE Append(users, [username |-> username,
                        password |-> hash_password(password),
                        user_id |-> next_user_id])

save_transaction(user_id, date, t_type, category, amount, notes) ==
    InsertByRowid(transactions,
                  [rowid |-> next_rowid(transactions), user_id |-> user_id,
                   date |-> date, type |-> t_type, category |-> category,
                   amount |-> amount, notes |-> notes])

save_goal(user_id, goal, target, saved, deadline) ==
    Append(goals, [user_id |-> user_id, goal |-> goal, target_amount |-> target,
                   saved_amount |-> saved, deadline |-> deadline])

\* UPDATE transactions SET ... WHERE user_id = ? AND rowid = ?   (index + 1)
update_transaction(user_id, index, date, t_type, category, amount, notes) ==
    [i \in 1..Len(transactions) |->
        IF transactions[i].user_id = user_id /\ transactions[i].rowid = index + 1
        THEN [rowid |-> transactions[i].rowid, user_id |-> user_id,
              date |-> date, type |-> t_type, category |-> category,
              amount |-> amount, notes |-> notes]
        ELSE transactions[i]]

\* DELETE FROM transactions WHERE user_id = ? AND rowid = ?   (index + 1)
RECURSIVE DeleteWhere(_, _, _)
DeleteWhere(rows, user_id, rowid) ==
    IF rows = <<>> THEN <<>>
    ELSE IF Head(rows).user_id = user_id /\ Head(rows).rowid = rowid
         THEN DeleteWhere(Tail(rows), user_id, rowid)
         ELSE <<Head(rows)>> \o DeleteWhere(Tail(rows), user_id, rowid)

RECURSIVE DeleteRowid(_, _)
DeleteRowid(rows, rowid) ==
    IF rows = <<>> THEN <<>>
    ELSE IF Head(rows).rowid = rowid
         THEN DeleteRowid(Tail(rows), rowid)
         ELSE <<Head(rows)>> \o DeleteRowid(Tail(rows), rowid)

delete_transaction_any_user(user_id, index) == DeleteRowid(transactions, index + 1)

delete_transaction(user_id, index) == DeleteWhere(transactions, user_id, index + 1)

(***************************************************************************)
(* The form handlers.                                                      *)
(***************************************************************************)
\* register_form, "Register"
Register(new_username, new_password) ==
    /\ ~login_gate
    /\ Len(users) < MaxUsers
    /\ RowsStored < MaxRows
    /\ LET table == register_user(new_username, new_password)
       IN  IF table # users
           THEN /\ users' = table
                /\ users_seq' = table[Len(table)].user_id
                /\ registered' = registered \cup
                       {[username |-> new_username, password |-> new_password,
                         user_id |-> table[Len(table)].user_id]}
                /\ last' = Event("register", 0, NoFields,
                                 "Registered successfully! Please login.")
           ELSE /\ UNCHANGED <<users, users_seq, registered>>
                /\ last' = Event("register", 0, NoFields, "Username already exists.")
    /\ UNCHANGED <<transactions, goals, session, appended>>

\* login_form, "Login"
login_sets_session(username, user) ==
    [logged_in |-> TRUE, user_id |-> user, username |-> username]

Login(username, password) ==
    /\ ~login_gate
    /\ \E user \in check_user(username, password) :
          IF user # NoId
          THEN /\ session' = login_sets_session(username, user)
               /\ last' = Event("login", 0, NoFields, "Logged in successfully!")
          ELSE /\ UNCHANGED session
               /\ last' = Event("login", 0, NoFields, "Invalid credentials.")
    /\ UNCHANGED <<users, users_seq, transactions, goals, registered, appended>>

\* the sidebar's "Logout" button
Logout_keeps_username ==
    /\ login_gate
    /\ session' = [Anonymous EXCEPT !.username = session.username]
    /\ last' = Event("logout", 0, NoFields, "")
    /\ UNCHANGED <<users, users_seq, transactions, goals, registered, appended>>

Logout ==
    /\ login_gate
    /\ session' = Anonymous
    /\ last' = Event("logout", 0, NoFields, "")
    /\ UNCHANGED <<users, users_seq, transactions, goals, registered, appended>>

\* transaction_form: if amount <= 0: st.error(...)
amount_negative(amount) == amount < 0

amount_invalid(amount) == amount <= 0

\* transaction_form, "Add Transaction"
AddTransaction(date, t_type, category, amount, notes) ==
    /\ login_gate
    /\ IF amount_invalid(amount)
       THEN /\ last' = Event("add", 0, NoFields, "Amount must be positive.")
            /\ UNCHANGED <<transactions, appended>>
       ELSE /\ RowsStored < MaxRows
            /\ transactions' = save_transaction(session.user_id, date, t_type,
                                                category, amount, notes)
            /\ appended' = [appended EXCEPT ![session.user_id] =
                               Append(@, [user_id |-> session.user_id, date |-> date,
                                          type |-> t_type, category |-> category,
                                          amount |-> amount, notes |-> notes])]
            /\ last' = Event("add", 0, NoFields, "Transaction added!")
    /\ UNCHANGED <<users, users_seq, goals, session, registered>>

\* edit_transaction_form is rendered only when the DataFrame is not empty; its
\* index input is bounded by min_value=0, max_value=len(df)-1.
EditIndexes == 0..(Len(load_transactions(session.user_id)) - 1)

\* edit_transaction_form, "Update"
UpdateTransaction(index, date, t_type, category, amount, notes) ==
    /\ login_gate
    /\ index \in EditIndexes
    /\ IF amount_invalid(amount)
       THEN /\ last' = Event("update", 0, NoFields, "Amount must be positive.")
            /\ UNCHANGED <<transactions, appended>>
       ELSE LET table == update_transaction(session.user_id, index, date, t_type,
                                            category, amount, notes)
            IN  /\ transactions' = table
                /\ appended' = [appended EXCEPT ![session.user_id] =
                                   Listing(table, session.user_id)]
                /\ last' = Event("update", index, Fields(date, t_type, category, amount, notes),
                                 "Transaction updated!")
    /\ UNCHANGED <<users, users_seq, goals, session, registered>>

\* edit_transaction_form, "Delete"
DeleteTransaction(index) ==
    /\ login_gate
    /\ index \in EditIndexes
    /\ LET table == delete_transaction(session.user_id, index)
       IN  /\ transactions' = table
           /\ appended' = [appended EXCEPT ![session.user_id] =
                              Listing(table, session.user_id)]
    /\ last' = Event("delete", index, NoFields, "Transaction deleted!")
    /\ UNCHANGED <<users, users_seq, goals, session, registered>>

EditFormUpdate ==
    \E i \in EditIndexes, d \in Dates, t \in Types, c \in Categories,
       a \in Amounts, n \in Notes :
       UpdateTransaction(i, d, t, c, a, n)

EditFormDelete == \E i \in EditIndexes : DeleteTransaction(i)

\* goal_form: if not goal_name / elif target <= saved
goal_name_missing(goal_name) == goal_name = ""

target_below_saved(target, saved) == target < saved

target_not_above_saved(target, saved) == target <= saved

\* goal_form, "Add Goal"
AddGoal(goal_name, target, saved, deadline) ==
    /\ login_gate
    /\ IF goal_name_missing(goal_name)
       THEN /\ last' = Event("goal", 0, NoFields, "Goal name is required.")
            /\ UNCHANGED goals
       ELSE IF target_not_above_saved(target, saved)
       THEN /\ last' = Event("goal", 0, NoFields,
                             "Target amount must be greater than saved amount.")
            /\ UNCHANGED goals
       ELSE /\ RowsStored < MaxRows
            /\ goals' = save_goal(session.user_id, goal_name, target, saved, deadline)
            /\ last' = Event("goal", 0, NoFields, "Goal added!")
    /\ UNCHANGED <<users, users_seq, transactions, session, registered, appended>>

Next ==
    \/ \E c \in Credentials : Register(c[1], c[2])
    \/ \E u \in Usernames, p \in Passwords : Login(u, p)
    \/ Logout
    \/ \E d \in Dates, t \in Types, c \in Categories, a \in Amounts, n \in Notes :
          AddTransaction(d, t, c, a, n)
    \/ EditFormUpdate
    \/ EditFormDelete
    \/ \E g \in GoalNames, t \in Targets, s \in Saveds, d \in Deadlines :
          AddGoal(g, t, s, d)

Spec == Init /\ [][Next]_vars

(***************************************************************************)
(* Properties.                                                             *)
(***************************************************************************)
\* The user the session belongs to, and the users that can own rows.
Me == session.user_id

Accounts == 1..MaxUsers

\* seq without its element at 0-based position index.
RemoveAt(seq, index) ==
    [k \in 1..(Len(seq) - 1) |-> IF k <= index THEN seq[k] ELSE seq[k + 1]]

Row(user_id, fields) ==
    [user_id |-> user_id, date |-> fields.date, type |-> fields.type,
     category |-> fields.category, amount |-> fields.amount, notes |-> fields.notes]

\* C1: no two rows of the users table ever share a username (a second
\* register of a username is refused and adds no row).
C1_UsernamesUnique ==
    \A i, j \in 1..Len(users) : users[i].username = users[j].username => i = j

\* C2: authenticate(u, p) returns the user_id assigned to a registration made
\* with exactly (u, p), and the same empty result when there is none, whether u
\* was never registered or was registered with another password.
C2_Authenticate ==
    \A u \in Usernames, p \in Passwords :
        LET ids == {r.user_id : r \in {x \in registered :
                                          x.username = u /\ x.password = p}}
        IN  check_user(u, p) = IF ids = {} THEN {NoId} ELSE ids

\* A login has failed in a state where one name is registered with one password
\* only and the other name is not registered: all three cases of C2 are there.
C2_Witness ==
    /\ last.msg = "Invalid credentials."
    /\ \E r \in registered :
          /\ check_user(r.username, r.password) = {r.user_id}
          /\ \E p \in Passwords : check_user(r.username, p) = {NoId}
          /\ \E u \in Usernames :
                /\ \A x \in registered : x.username # u
                /\ \A p \in Passwords : check_user(u, p) = {NoId}

\* C3: deleting at ordinal i of the user's list removes exactly the record the
\* list showed at position i; the user's other records keep their order.
C3_DeleteRemovesPosition ==
    [][last'.form = "delete" =>
          \A u \in Accounts : u = Me =>
              load_transactions(u)' = RemoveAt(load_transactions(u), last'.index)]_vars

\* C4: update_transaction(user_id, i, new_fields) overwrites exactly the record
\* at position i of the user's list and leaves every other record unchanged.
C4_UpdateOverwritesPosition ==
    [][(last'.form = "update" /\ last'.msg = "Transaction updated!") =>
          \A u \in Accounts :
              load_transactions(u)' =
                  IF u = Me
                  THEN [load_transactions(u) EXCEPT ![last'.index + 1] =
                           Row(u, last'.fields)]
                  ELSE load_transactions(u)]_vars

\* C5: list_transactions(user) is exactly the records appended for the user, each
\* once, in insertion order, whatever other users appended, updated or deleted
\* in between.  (appended[user] restarts from the list at the user's own last
\* update or delete; for a user with none it is the sequence of appends.)
C5_RoundTrip ==
    \A u \in Accounts : load_transactions(u) = appended[u]

\* The user has just appended a second, different record, after a row with a
\* smaller rowid was deleted from the table.
C5_Witness ==
    /\ last.msg = "Transaction added!"
    /\ Len(appended[Me]) = 2
    /\ appended[Me][1] # appended[Me][2]
    /\ load_transactions(Me) = appended[Me]
    /\ transactions[1].rowid > 1
    /\ Len(users) = 2

\* C6: a goal submitted with an empty name or with target <= saved is rejected
\* and leaves the goals table unchanged; every stored goal has a non-empty name
\* and saved_amount < target_amount.
GoalRejections ==
    {"Goal name is required.", "Target amount must be greater than saved amount."}

C6_GoalValidation ==
    /\ [](\A i \in 1..Len(goals) :
             goals[i].goal # "" /\ goals[i].saved_amount < goals[i].target_amount)
    /\ [][last'.msg \in GoalRejections => goals' = goals]_vars

\* A goal is stored and a later submission with target <= saved was rejected.
C6_Witness ==
    /\ last.msg = "Target amount must be greater than saved amount."
    /\ goals # <<>>

\* C7: every stored transaction has amount > 0; an add or an update submitted
\* with amount <= 0 leaves the transactions table unchanged.
C7_AmountsPositive ==
    /\ [](\A i \in 1..Len(transactions) : transactions[i].amount > 0)
    /\ [][last'.msg = "Amount must be positive." => transactions' = transactions]_vars

\* An update with amount <= 0 was rejected while transactions are stored.
C7_Witness ==
    /\ last.form = "update"
    /\ last.msg = "Amount must be positive."
    /\ transactions # <<>>

\* C8: the session starts Anonymous; only a login whose check_user matched makes
\* it Authenticated, with the id returned for the submitted name; a failed login
\* and a registration leave it unchanged; logout resets it; logged_in holds
\* exactly when user_id and username are set.
SessionConsistent ==
    \/ session = Anonymous
    \/ session.logged_in /\ session.user_id # NoId /\ session.username # None

SessionStep ==
    /\ session' # session => last'.form \in {"login", "logout"}
    /\ last'.msg = "Logged in successfully!" =>
          /\ ~session.logged_in
          /\ session'.logged_in
          /\ \E p \in Passwords :
                /\ session'.user_id \in check_user(session'.username, p)
                /\ session'.user_id # NoId
    /\ last'.msg = "Invalid credentials." => session' = session
    /\ last'.form = "register" => session' = session
    /\ last'.form = "logout" => session.logged_in /\ session' = Anonymous

C8_SessionMachine ==
    /\ session = Anonymous
    /\ []SessionConsistent
    /\ [][SessionStep]_vars

\* A user has logged in and out again.
C8_Witness ==
    /\ last.form = "logout"
    /\ session = Anonymous
    /\ users # <<>>

\* C9: every transaction row and every goal row carries the user_id of a row of
\* the users table; the ledger forms run only in an Authenticated session; the
\* users table holds exactly the rows the registrations inserted.
C9_RowsReferenceUsers ==
    /\ \A i \in 1..Len(transactions) :
          \E k \in 1..Len(users) : users[k].user_id = transactions[i].user_id
    /\ \A i \in 1..Len(goals) :
          \E k \in 1..Len(users) : users[k].user_id = goals[i].user_id
    /\ last.form \in {"add", "update", "delete", "goal"} =>
          /\ session.logged_in
          /\ \E k \in 1..Len(users) : users[k].user_id = session.user_id
    /\ Cardinality(registered) = Len(users)
    /\ \A r \in registered :
          /\ r.user_id \in 1..Len(users)
          /\ users[r.user_id] = [username |-> r.username,
                                 password |-> hash_password(r.password),
                                 user_id |-> r.user_id]

\* Two users are registered; one owns a transaction and the other a goal.
C9_Witness ==
    /\ Len(users) = 2
    /\ transactions # <<>>
    /\ goals # <<>>
    /\ transactions[1].user_id # goals[1].user_id

\* C10: an update or delete issued by one user leaves every other user's list
\* of transactions as it was, also when the index addresses another user's row.
C10_OtherUsersUntouched ==
    [][last'.form \in {"update", "delete"} =>
          \A v \in Accounts : v # Me =>
              load_transactions(v)' = load_transactions(v)]_vars

\* A delete was issued whose index addresses a row of another user; the row
\* is still there.
C10_Witness ==
    /\ last.form = "delete"
    /\ \E i \in 1..Len(transactions) :
          /\ transactions[i].rowid = last.index + 1
          /\ transactions[i].user_id # Me

====
